---- MODULE Spec2Model ----
(***************************************************************************)
(* Model of the dbus-macros derive: the D-Bus signature parser             *)
(* (signature.rs) and the `#[derive(Arg)]` classifier (derive.rs).         *)
(*                                                                         *)
(* A text is a sequence of characters, each character a string.  The       *)
(* terminator character U+0000 is written NUL; EAcute stands for a         *)
(* character outside ASCII, two bytes long in UTF-8.  Offsets are byte     *)
(* offsets, as `str::char_indices` and `str::len` count them.              *)
(***************************************************************************)
EXTENDS Integers, Sequences, FiniteSets, TLC

\* ------------------------------------------------------------------ bounds

\* Longest body of an enumerated short literal, in characters.
MaxLen == 4
\* Long literals are enumerated with byte lengths within PadSlack of the limit.
PadSlack == 2
\* Longest prefix put in front of the padding of a long literal.
MaxPadPrefix == 1
\* Most fields of an enumerated struct, most variants of an enumerated enum.
MaxFields == 2
MaxVariants == 3

\* ------------------------------------------------------------- characters

NUL == "NUL"
EAcute == "U+00E9"

\* The characters literals are enumerated over.
Alphabet == {"s", "v", "a", "(", ")", "{", "}", NUL, EAcute}

\* char::len_utf8 of the enumerated characters
len_utf8(c) == IF c = EAcute THEN 2 ELSE 1

\* str::len: the length of the text in bytes, the sum of its characters' len_utf8
str_len(t) == Len(t) + Cardinality({j \in 1..Len(t) : len_utf8(t[j]) = 2})

\* Option::None, and the Option a peek or next of the cursor returns
None == [some |-> FALSE]
Some(i, c) == [some |-> TRUE, i |-> i, c |-> c]

\* str::char_indices: the cursor at the start of the text.  k is the index of
\* the next character, off its byte offset.
char_indices(t) == [k |-> 1, off |-> 0]

\* Peekable::peek
peek(t, cur) == IF cur.k <= Len(t) THEN Some(cur.off, t[cur.k]) ELSE None

\* the cursor after Peekable::next
advance(t, cur) ==
    IF cur.k <= Len(t) THEN [k |-> cur.k + 1, off |-> cur.off + len_utf8(t[cur.k])] ELSE cur

\* ---------------------------------------------------------------- results

\* Ok(Some(node)) and Ok(None) of DbusType::parse, with the cursor it leaves
OkSome(node, cur) == [st |-> "Ok", some |-> TRUE, node |-> node, cur |-> cur]
OkNone(cur) == [st |-> "Ok", some |-> FALSE, cur |-> cur]
\* Err(..): the message's kind, the offset and the character it reports;
\* eof records that the error was raised because the input was exhausted
Err(kind, at, ch, eof) == [st |-> "Err", kind |-> kind, at |-> at, ch |-> ch, eof |-> eof]
\* a panic (unwrap on None, unreachable!())
Panic(where) == [st |-> "Panic", where |-> where]

\* ------------------------------------------------------------- SimpleType

SimpleSymbols == {"y", "b", "n", "q", "i", "u", "d", "h", "s", "o", "g"}

\* the symbol table shared by the two matches on simple types
SimpleTypeOf(c) ==
    CASE c = "y" -> "Byte"
      [] c = "b" -> "Bool"
      [] c = "n" -> "Int16"
      [] c = "q" -> "UInt16"
      [] c = "i" -> "Int32"
      [] c = "u" -> "UInt32"
      [] c = "d" -> "Double"
      [] c = "h" -> "UnixFd"
      [] c = "s" -> "String"
      [] c = "o" -> "ObjectPath"
      [] c = "g" -> "Signature"

SimpleTypes ==
    {"Byte", "Bool", "Int16", "UInt16", "Int32", "UInt32", "Double", "UnixFd", "String",
     "ObjectPath", "Signature"}

\* A from_char that also takes `v` for a key.
SimpleType_from_char_AcceptsVariant(c, idx) ==
    IF c \in SimpleSymbols THEN [st |-> "Ok", ty |-> SimpleTypeOf(c)]
    ELSE IF c = "v" THEN [st |-> "Ok", ty |-> "Variant"]
    ELSE Err("ExpectedSimpleType", idx, c, FALSE)

\* SimpleType::from_char
SimpleType_from_char(c, idx) ==
    IF c \in SimpleSymbols THEN [st |-> "Ok", ty |-> SimpleTypeOf(c)]
    ELSE Err("ExpectedSimpleType", idx, c, FALSE)

\* --------------------------------------------------------------- DbusType

Simple(ty) == [tag |-> "Simple", ty |-> ty]
Struct(types) == [tag |-> "Struct", types |-> types]
Array(elem) == [tag |-> "Array", elem |-> elem]
Variant == [tag |-> "Variant"]
Dict(key, value) == [tag |-> "Dict", key |-> key, value |-> value]

\* A close check that reports the offset where the input ended.
StructClose_ReportsEnd(t, cur, i, types) ==
    LET nx == peek(t, cur) IN
    IF nx.some /\ nx.c = ")" THEN OkSome(Struct(types), advance(t, cur))
    ELSE Err("ParenNotClosed", cur.off, "", ~nx.some)

\* ensure!(s.next().is_some_and(|c| c.1 == ')'), ..); Self::Struct(types)
StructClose(t, cur, i, types) ==
    LET nx == peek(t, cur) IN
    IF nx.some /\ nx.c = ")" THEN OkSome(Struct(types), advance(t, cur))
    ELSE Err("ParenNotClosed", i, "", ~nx.some)

\* the guard of the dict arm: matches!(s.peek(), Some((_, '{')))
DictOpens(t, cur) == peek(t, cur).some /\ peek(t, cur).c = "{"

RECURSIVE DbusType_parse(_, _), StructTypes(_, _, _)

\* the member loop of the struct arm: iter::from_fn(..).collect::<Result<_, _>>()
StructTypes(t, cur, acc) ==
    LET pk == peek(t, cur) IN
    IF pk.some /\ pk.c = ")" THEN [st |-> "Ok", types |-> acc, cur |-> cur]
    ELSE LET r == DbusType_parse(t, cur) IN
         IF r.st # "Ok" THEN r
         ELSE IF ~r.some THEN [st |-> "Ok", types |-> acc, cur |-> r.cur]
         ELSE StructTypes(t, r.cur, Append(acc, r.node))

\* DbusType::parse
DbusType_parse(t, cur) ==
    LET nx == peek(t, cur) IN
    IF ~nx.some THEN OkNone(cur)
    ELSE
      LET i == nx.i
          c == nx.c
          s1 == advance(t, cur)
      IN
      CASE c \in SimpleSymbols -> OkSome(Simple(SimpleTypeOf(c)), s1)
        [] c = "(" ->
            LET m == StructTypes(t, s1, <<>>) IN
            IF m.st # "Ok" THEN m ELSE StructClose(t, m.cur, i, m.types)
        [] c = "a" /\ DictOpens(t, s1) ->
            \* s.next().unwrap(/*just peeked*/)
            IF ~peek(t, s1).some THEN Panic("DbusType::parse unwrap")
            ELSE
              LET bi == peek(t, s1).i
                  s2 == advance(t, s1)
                  k == peek(t, s2)
              IN
              IF ~k.some THEN Err("ExpectedKeyType", bi, "", TRUE)
              ELSE
                LET key == SimpleType_from_char(k.c, k.i) IN
                IF key.st # "Ok" THEN key
                ELSE
                  LET v == DbusType_parse(t, advance(t, s2)) IN
                  IF v.st # "Ok" THEN v
                  ELSE IF ~v.some THEN Err("ExpectedValueType", bi, "", TRUE)
                  ELSE OkSome(Dict(key.ty, v.node), v.cur)
        [] c = "a" /\ ~DictOpens(t, s1) ->
            LET e == DbusType_parse(t, s1) IN
            IF e.st # "Ok" THEN e
            ELSE IF ~e.some THEN Err("MissingArrayType", i + 1, "", TRUE)
            ELSE OkSome(Array(e.node), e.cur)
        [] c = "v" -> OkSome(Variant, s1)
        [] OTHER -> Err("ExpectedDbusType", i, c, FALSE)

\* A terminator test that never recognises the terminator.
AtTerminator_Never(pk) == FALSE

\* if let Some((i, '\0')) = s.peek().copied()
AtTerminator(pk) == pk.some /\ pk.c = NUL

RECURSIVE TopLevel(_, _, _)
\* the top-level loop of Signature::parse:
\* iter::from_fn(..).collect::<Result<_, _>>()
TopLevel(t, cur, acc) ==
    LET pk == peek(t, cur) IN
    IF AtTerminator(pk) THEN
        \* s.next(); the error built when more input follows is an expression
        \* statement: its value is dropped and the closure returns None.
        LET after == advance(t, cur)
            dropped == IF peek(t, after).some
                       THEN Err("ExpectedEndAfterTerminator", pk.i, "", FALSE)
                       ELSE None
        IN [st |-> "Ok", parsed |-> acc]
    ELSE LET r == DbusType_parse(t, cur) IN
         IF r.st # "Ok" THEN r
         ELSE IF ~r.some THEN [st |-> "Ok", parsed |-> acc]
         ELSE TopLevel(t, r.cur, Append(acc, r.node))

\* the limit of ensure!(s.len() <= 255, ..)
MaxSignatureLen == 255

\* A length check that counts characters instead of bytes.
LengthOk_CountsChars(s) == Len(s) <= MaxSignatureLen

\* s.len() <= 255
LengthOk(s) == str_len(s) <= MaxSignatureLen

\* Signature::parse (the syn::parse::Parse impl), on the value of the literal
Signature_parse(src) ==
    IF ~LengthOk(src) THEN Err("MaxLength", 0, "", FALSE)
    ELSE TopLevel(src, char_indices(src), <<>>)

\* Signature::expand_to_signature: the text handed to from_slice_unchecked
expand_to_signature(src) ==
    IF src # <<>> /\ src[Len(src)] = NUL THEN src ELSE Append(src, NUL)

\* SimpleType::arg_type
SimpleType_arg_type(ty) ==
    CASE ty = "Byte" -> "Byte"
      [] ty = "Bool" -> "Bool"
      [] ty = "Int16" -> "Int16"
      [] ty = "UInt16" -> "UInt16"
      [] ty = "Int32" -> "Int32"
      [] ty = "UInt32" -> "UInt32"
      [] ty = "Double" -> "Double"
      [] ty = "UnixFd" -> "UnixFd"
      [] ty = "String" -> "String"
      [] ty = "ObjectPath" -> "ObjectPath"
      [] ty = "Signature" -> "Signature"

\* DbusType::arg_type
DbusType_arg_type(node) ==
    CASE node.tag = "Simple" -> SimpleType_arg_type(node.ty)
      [] node.tag = "Struct" -> "Struct"
      [] node.tag \in {"Array", "Dict"} -> "Array"
      [] node.tag = "Variant" -> "Variant"

\* ----------------------------------------------------------------- derive

\* The derive's input: `data` is the shape of the item.  A struct has fields of
\* a style (Unit, Unnamed, Named), each field given by the signature its type's
\* Arg impl returns; an enum has variants, each given by its number of fields.
StructData(style, tys) == [kind |-> "Struct", style |-> style, tys |-> tys, variants |-> <<>>]
EnumData(variants) == [kind |-> "Enum", style |-> "", tys |-> <<>>, variants |-> variants]
UnionData == [kind |-> "Union", style |-> "", tys |-> <<>>, variants |-> <<>>]

\* what `arg` returns: the generated impl (its ARG_TYPE and the text its
\* signature() builds the Signature from), or an error
OkImpl(arg_type, sig) == [st |-> "Ok", arg_type |-> arg_type, signature |-> sig]
ArgErr(kind, at) == [st |-> "Err", kind |-> kind, at |-> at, ch |-> "", eof |-> FALSE]

RECURSIVE push_all(_, _)
\* #(__signature.push_str(&*<#fields as arg::Arg>::signature());)*
push_all(acc, tys) == IF tys = <<>> THEN acc ELSE push_all(acc \o Head(tys), Tail(tys))

\* A guard that sends only as_struct structs to the tuple arm.
TupleArm_OnlyAsStruct(data, as_struct) == data.kind = "Struct" /\ as_struct

\* Data::Struct(DataStruct { fields, .. }) if matches!(fields, Fields::Unnamed(_)) || as_struct
TupleArm(data, as_struct) == data.kind = "Struct" /\ (data.style = "Unnamed" \/ as_struct)

\* data.variants.iter().find(|v| !v.fields.is_empty()): the index found, 0 for None
find_with_fields(variants) ==
    IF \E j \in 1..Len(variants) : variants[j] # 0
    THEN CHOOSE j \in 1..Len(variants) :
            variants[j] # 0 /\ \A h \in 1..(j - 1) : variants[h] = 0
    ELSE 0

\* the `else` branch of arg: no signature attribute, the match on data
arg_inferred(data, as_struct) ==
    IF TupleArm(data, as_struct)
    THEN OkImpl("Struct", Append(push_all(<<"(">>, data.tys), ")"))
    ELSE IF data.kind = "Struct" /\ data.style = "Unnamed"
    THEN Panic("unreachable!()")
    ELSE IF data.kind = "Struct" /\ data.style = "Named"
    THEN OkImpl("Array", <<"a", "{", "s", "v", "}", NUL>>)
    ELSE IF data.kind = "Struct" /\ data.style = "Unit"
    THEN ArgErr("UnitStruct", 0)
    ELSE IF data.kind = "Enum" /\ data.variants = <<>>
    THEN ArgErr("EnumWithoutVariants", 0)
    ELSE IF data.kind = "Enum" /\ \A j \in 1..Len(data.variants) : data.variants[j] = 0
    THEN OkImpl("String", <<"s", NUL>>)
    ELSE IF data.kind = "Enum"
    THEN LET variant == find_with_fields(data.variants) IN
         IF variant = 0 THEN Panic("find(..).unwrap()")
         ELSE ArgErr("EnumWithFields", variant)
    ELSE ArgErr("Union", 0)

\* the `if let Some(signature) = signature` branch of arg
arg_explicit(signature) ==
    IF Len(signature.parsed) # 1 THEN ArgErr("ExpectedOneType", 0)
    ELSE OkImpl(DbusType_arg_type(signature.parsed[1]), expand_to_signature(signature.src))

\* ------------------------------------------------------------------ inputs

Strs(n) == UNION {[1..m -> Alphabet] : m \in 0..n}
Pad(c, n) == [j \in 1..n |-> c]

\* what the enumerated short literals open with
Openers == {<<>>, <<"a", "{">>, <<"(">>}
ShortLiterals == {p \o b : p \in Openers, b \in Strs(MaxLen)}

\* literals around the length limit, in one-byte and in two-byte characters
PadCounts ==
    ((MaxSignatureLen - PadSlack)..(MaxSignatureLen + PadSlack))
    \cup (((MaxSignatureLen \div 2) - PadSlack)..((MaxSignatureLen \div 2) + PadSlack))
\* characters that end the parse wherever they stand at the top level
Stoppers == {")", "{", "}", NUL, EAcute}
LongLiterals ==
    {p \o Pad(c, n) : p \in Strs(MaxPadPrefix), c \in Stoppers, n \in PadCounts}
    \cup {t \in {p \o Pad(c, n) : p \in Strs(MaxPadPrefix), c \in Alphabet, n \in PadCounts} :
             str_len(t) > MaxSignatureLen}

Literals == ShortLiterals \cup LongLiterals

\* the signatures the field types of the enumerated structs have
FieldSignatures ==
    {<<"s">>, <<"v">>, <<"a", "s">>, <<"(", "s", ")">>, <<"a", "{", "s", "v", "}">>}
FieldLists == UNION {[1..m -> FieldSignatures] : m \in 0..MaxFields}
VariantLists == UNION {[1..m -> 0..1] : m \in 0..MaxVariants}

Shapes ==
    {StructData("Unit", <<>>), UnionData}
    \cup {StructData(style, tys) : style \in {"Unnamed", "Named"}, tys \in FieldLists}
    \cup {EnumData(vs) : vs \in VariantLists}

\* ------------------------------------------------------------------- state

VARIABLES
    attr,       \* the `signature = ".."` of #[dbus(..)]: None or the literal's value
    as_struct,  \* the `as_struct` flag of #[dbus(..)]
    data,       \* the item the derive is on
    pc,         \* "from_attributes", "arg" or "done"
    signature,  \* Dbus::signature once from_attributes has parsed it
    out         \* what the derive returned

vars == <<attr, as_struct, data, pc, signature, out>>

NoOutput == [st |-> "None"]

Init ==
    /\ \/ /\ attr \in {[some |-> TRUE, src |-> t] : t \in Literals}
          /\ data = StructData("Unit", <<>>)
          /\ as_struct = FALSE
       \/ /\ attr = None
          /\ data \in Shapes
          /\ as_struct \in BOOLEAN
    /\ pc = "from_attributes"
    /\ signature = None
    /\ out = NoOutput

\* let Dbus { signature, as_struct } = Dbus::from_attributes(&attrs)?;
FromAttributes ==
    /\ pc = "from_attributes"
    /\ IF attr.some
       THEN LET r == Signature_parse(attr.src) IN
            IF r.st = "Ok"
            THEN /\ signature' = [some |-> TRUE, src |-> attr.src, parsed |-> r.parsed]
                 /\ pc' = "arg"
                 /\ out' = out
            ELSE /\ signature' = signature
                 /\ pc' = "done"
                 /\ out' = r
       ELSE /\ signature' = None
            /\ pc' = "arg"
            /\ out' = out
    /\ UNCHANGED <<attr, as_struct, data>>

\* arg with a signature attribute
ArgExplicit ==
    /\ pc = "arg"
    /\ signature.some
    /\ out' = arg_explicit(signature)
    /\ pc' = "done"
    /\ UNCHANGED <<attr, as_struct, data, signature>>

\* arg without a signature attribute
ArgInferred ==
    /\ pc = "arg"
    /\ ~signature.some
    /\ out' = arg_inferred(data, as_struct)
    /\ pc' = "done"
    /\ UNCHANGED <<attr, as_struct, data, signature>>

Next == FromAttributes \/ ArgExplicit \/ ArgInferred

Spec == Init /\ [][Next]_vars

\* the literal has been parsed
Parsed == attr.some /\ pc # "from_attributes"
\* what Signature::parse returned for it
ParseResult == IF signature.some THEN [st |-> "Ok", parsed |-> signature.parsed] ELSE out

\* ------------------------------------------------------------------ claims

HasNul(t) == \E j \in 1..Len(t) : t[j] = NUL
\* the byte offset of the k-th character of t
ByteOff(t, k) == str_len(SubSeq(t, 1, k - 1))
\* the cursor standing at the k-th character of t
CursorAt(t, k) == [k |-> k, off |-> ByteOff(t, k)]
Count(t, c, lo, hi) == Cardinality({j \in lo..hi : t[j] = c})
Max(S) == CHOOSE x \in S : \A y \in S : y <= x

\* the text is one complete type and nothing else; braces and terminators apart
OneCompleteType(v) ==
    /\ \A j \in 1..Len(v) : v[j] \notin {"{", "}", NUL}
    /\ Signature_parse(v).st = "Ok"
    /\ Len(Signature_parse(v).parsed) = 1

\* `a{`, a simple key, one complete value type, `}`
WellFormedDict(t) ==
    /\ Len(t) >= 5
    /\ t[1] = "a" /\ t[2] = "{" /\ t[3] \in SimpleSymbols /\ t[Len(t)] = "}"
    /\ OneCompleteType(SubSeq(t, 4, Len(t) - 1))

\* C1: parsing a well-formed dict signature (`a{`, one simple key symbol, one
\* complete value type, `}`) succeeds and yields exactly one top-level node
\* Dict(key, value), whose wire category is Array.
C1_WellFormedDictParses ==
    (Parsed /\ WellFormedDict(attr.src)) =>
        /\ ParseResult.st = "Ok"
        /\ Len(ParseResult.parsed) = 1
        /\ ParseResult.parsed[1] =
              Dict(SimpleTypeOf(attr.src[3]),
                   Signature_parse(SubSeq(attr.src, 4, Len(attr.src) - 1)).parsed[1])
        /\ DbusType_arg_type(ParseResult.parsed[1]) = "Array"

\* the index of the first terminator of t
FirstNul(t) == CHOOSE j \in 1..Len(t) : t[j] = NUL /\ \A h \in 1..(j - 1) : t[h] # NUL

\* C2: for every text within the length limit in which the terminator occurs
\* anywhere but as the last character, Signature::parse returns an error; when
\* the terminator stands between top-level types the error is the "expected
\* end of input after terminator" error carrying the terminator's offset.
C2_MisplacedTerminatorFails ==
    (/\ Parsed
     /\ str_len(attr.src) <= MaxSignatureLen
     /\ \E j \in 1..(Len(attr.src) - 1) : attr.src[j] = NUL) =>
        /\ ParseResult.st = "Err"
        /\ LET j == FirstNul(attr.src) IN
           (j < Len(attr.src) /\ Signature_parse(SubSeq(attr.src, 1, j - 1)).st = "Ok") =>
               /\ ParseResult.kind = "ExpectedEndAfterTerminator"
               /\ ParseResult.at = ByteOff(attr.src, j)

\* C3: for every shape the classifier accepts without an explicit signature
\* (tuple or as_struct struct -> Struct, `(` members `)`; named-field struct ->
\* Array, `a{sv}`; enum without payloads -> String, `s`), Signature::parse of
\* the emitted signature succeeds with exactly one top-level node, whose
\* arg_type is the category the classifier assigned.
C3_EmittedSignatureRoundTrips ==
    (pc = "done" /\ ~attr.some /\ out.st = "Ok") =>
        /\ out.arg_type = (IF data.kind = "Enum" THEN "String"
                           ELSE IF data.style = "Unnamed" \/ as_struct THEN "Struct"
                           ELSE "Array")
        /\ LET r == Signature_parse(out.signature) IN
           /\ r.st = "Ok"
           /\ Len(r.parsed) = 1
           /\ DbusType_arg_type(r.parsed[1]) = out.arg_type

\* C4: without an explicit signature, a struct with no fields (unit, `S()`
\* or `S {}`, as_struct or not) and an enum with a variant that carries a
\* payload always get a classifier error, never a category and a signature.
C4_UnclassifiableShapesRejected ==
    (/\ pc = "done"
     /\ ~attr.some
     /\ \/ data.kind = "Struct" /\ data.tys = <<>>
        \/ data.kind = "Enum" /\ \E j \in 1..Len(data.variants) : data.variants[j] # 0) =>
        out.st = "Err"

\* C5: a single trailing terminator is transparent: for a text t without a
\* terminator and shorter than 255, Signature::parse of t followed by one
\* terminator succeeds exactly when Signature::parse of t does, with the same
\* node sequence.
C5_TrailingTerminatorTransparent ==
    (Parsed /\ ~HasNul(attr.src) /\ Len(attr.src) < MaxSignatureLen) =>
        LET r == Signature_parse(Append(attr.src, NUL)) IN
        /\ (r.st = "Ok") <=> (ParseResult.st = "Ok")
        /\ ParseResult.st = "Ok" => r.parsed = ParseResult.parsed

C5_Witness ==
    /\ Parsed /\ ~HasNul(attr.src)
    /\ ParseResult.st = "Ok" /\ Len(ParseResult.parsed) = 2
    /\ Signature_parse(Append(attr.src, NUL)).st = "Ok"

\* the byte offsets of the `(` of t that no `)` of t closes
UnclosedParens(t) ==
    {ByteOff(t, j) : j \in {h \in 1..Len(t) :
        /\ t[h] = "("
        /\ \A k \in (h + 1)..Len(t) : Count(t, ")", h + 1, k) <= Count(t, "(", h + 1, k)}}

\* the parse failed because the input ended
Exhausted == Parsed /\ ParseResult.st = "Err" /\ ParseResult.eof

\* the text ends in `a`, in `a{` or in `a{` and a key: an array or a dict is
\* waiting for its element, key or value
EndsInsideArrayOrDict(t) ==
    \/ Len(t) >= 1 /\ t[Len(t)] = "a"
    \/ Len(t) >= 2 /\ t[Len(t) - 1] = "a" /\ t[Len(t)] = "{"
    \/ Len(t) >= 3 /\ t[Len(t) - 2] = "a" /\ t[Len(t) - 1] = "{" /\ t[Len(t)] \in SimpleSymbols

\* C6 as stated: whenever the input is exhausted with a struct still open,
\* parsing fails with the "paren not closed" error at the offset of a `(`
\* still unclosed at the end of the input.
C6_Original ==
    (Exhausted /\ UnclosedParens(attr.src) # {}) =>
        /\ ParseResult.kind = "ParenNotClosed"
        /\ ParseResult.at \in UnclosedParens(attr.src)

\* C6 (amended): whenever the input is exhausted with a struct still open and
\* the text does not end inside an array or a dict (in `a`, `a{` or `a{` and
\* a key), parsing fails with the "paren not closed" error at the offset of
\* the innermost `(` still unclosed at the end of the input.
C6_ExhaustedStructIsParenNotClosed ==
    (Exhausted /\ UnclosedParens(attr.src) # {} /\ ~EndsInsideArrayOrDict(attr.src)) =>
        /\ ParseResult.kind = "ParenNotClosed"
        /\ ParseResult.at = Max(UnclosedParens(attr.src))

C6_Witness ==
    /\ Exhausted
    /\ ~EndsInsideArrayOrDict(attr.src)
    /\ Cardinality(UnclosedParens(attr.src)) = 2
    /\ ParseResult.kind = "ParenNotClosed"
    /\ ParseResult.at = 1

RECURSIVE DictKeysSimple(_)
\* every Dict node of the tree has a SimpleType key
DictKeysSimple(node) ==
    CASE node.tag = "Struct" -> \A j \in 1..Len(node.types) : DictKeysSimple(node.types[j])
      [] node.tag = "Array" -> DictKeysSimple(node.elem)
      [] node.tag = "Dict" -> node.key \in SimpleTypes /\ DictKeysSimple(node.value)
      [] OTHER -> TRUE

\* what C7 says of an `a{` standing at the j-th character of t, for a parse
\* result r of the dict that opens there
DictKeyRejected(t, j, r) ==
    IF j + 2 > Len(t)
    THEN r = Err("ExpectedKeyType", ByteOff(t, j + 1), "", TRUE)
    ELSE t[j + 2] \notin SimpleSymbols =>
            r = Err("ExpectedSimpleType", ByteOff(t, j + 2), t[j + 2], FALSE)

\* C7: a dict key must be a simple type: where `a{` is followed by a
\* character that is not a simple-type symbol, parsing the dict fails with the
\* simple-type error reporting that character and its offset, and where the
\* text ends right after `a{` it fails with the "expected key type" error
\* (of DbusType::parse standing at any `a{` of the text, and of the whole
\* parse when complete top-level types and no terminator precede the `a{`);
\* every Dict node of a successful parse has a SimpleType key.
C7_DictKeyMustBeSimple ==
    Parsed =>
        /\ \A j \in 1..(Len(attr.src) - 1) :
              (attr.src[j] = "a" /\ attr.src[j + 1] = "{") =>
                  DictKeyRejected(attr.src, j, DbusType_parse(attr.src, CursorAt(attr.src, j)))
        /\ \A j \in 1..(Len(attr.src) - 1) :
              (/\ attr.src[j] = "a" /\ attr.src[j + 1] = "{"
               /\ LengthOk(attr.src)
               /\ ~HasNul(SubSeq(attr.src, 1, j - 1))
               /\ Signature_parse(SubSeq(attr.src, 1, j - 1)).st = "Ok") =>
                  DictKeyRejected(attr.src, j, ParseResult)
        /\ ParseResult.st = "Ok" =>
              \A j \in 1..Len(ParseResult.parsed) : DictKeysSimple(ParseResult.parsed[j])

C7_Witness ==
    /\ Parsed
    /\ Len(attr.src) >= 3
    /\ attr.src[1] = "a" /\ attr.src[2] = "{" /\ attr.src[3] = "v"
    /\ ParseResult = Err("ExpectedSimpleType", 2, "v", FALSE)

\* C8: the length limit is checked before any grammar rule: every text longer
\* than 255 (bytes, as str::len counts) fails with the length error whatever
\* its characters are, and no text of length 255 or less fails with it.
C8_LengthCheckedFirst ==
    Parsed =>
        IF str_len(attr.src) > 255
        THEN ParseResult.st = "Err" /\ ParseResult.kind = "MaxLength"
        ELSE ~(ParseResult.st = "Err" /\ ParseResult.kind = "MaxLength")

C8_Witness ==
    /\ Parsed
    /\ str_len(attr.src) = 256
    /\ Len(attr.src) < 255
    /\ ParseResult.st = "Err" /\ ParseResult.kind = "MaxLength"

\* C9: the internal assertions are unreachable: neither the classifier's
\* unreachable!() arm and unwrap nor the parser's unwrap is ever hit; every
\* input ends in a returned value or a returned error, never in a panic.
C9_NoPanic ==
    /\ out.st # "Panic"
    /\ pc = "done" => out.st \in {"Ok", "Err"}

C9_Witness ==
    /\ pc = "done"
    /\ ~attr.some
    /\ data.kind = "Struct" /\ data.style = "Unnamed" /\ ~as_struct
    /\ out.st = "Ok"

\* C10: for every explicit signature literal the derive accepts, the text
\* handed to the unchecked signature constructor ends with the terminator,
\* has no terminator before its last character, and before the terminator is
\* exactly the text of the one type that was parsed.
C10_HandedSignatureWellTerminated ==
    (pc = "done" /\ attr.some /\ out.st = "Ok") =>
        LET h == out.signature
            body == SubSeq(h, 1, Len(h) - 1)
        IN
        /\ h # <<>> /\ h[Len(h)] = NUL
        /\ ~HasNul(body)
        /\ Signature_parse(body) = [st |-> "Ok", parsed |-> signature.parsed]

====
